---- MODULE Spec2Model ----
(***************************************************************************)
(* Model of transform_and_load_data and create_database of                 *)
(* src/vcfs2SQLite_v1.py: the streaming loader that reads a wide CSV       *)
(* (5 fixed fields + one column per sample), explodes every per-sample     *)
(* cell into one record and writes the records in batches to the SQLite    *)
(* table "variants" with INSERT OR IGNORE.                                 *)
(*                                                                         *)
(* Text is modelled as sequences of one-character strings, so that         *)
(* str.split, csv.reader, str.isdigit and int() are computed, not assumed. *)
(* The token "^2" stands for the character U+00B2 (SUPERSCRIPT TWO), for   *)
(* which str.isdigit() is True and int() raises ValueError.                *)
(* Progress logging (lines 236-251) only prints and is left out.           *)
(* Integers wider than 64 bits (OverflowError in executemany) are outside  *)
(* the input pool.                                                         *)
(***************************************************************************)
EXTENDS Integers, Sequences, FiniteSets, TLC

VARIABLES
    input,          \* the lines of input_csv, each a sequence of characters
    batch_size,     \* parameter batch_size
    run,            \* how many times transform_and_load_data was started on (input, store)
    pc,             \* position in transform_and_load_data
    sample_ids,     \* header[5:]
    line_no,        \* number of lines the csv reader has consumed
    row,            \* the current decoded row
    i,              \* loop index of the sample loop (0-based, -1 before the first sample)
    parts,          \* local parts = cell_value.split(':')
    dp,             \* local dp after conversion
    gq,             \* local gq after conversion
    batch,          \* local batch
    store,          \* committed rows of table variants, in insertion order
    schema,         \* table and indexes exist
    tuned,          \* the final PRAGMAs/ANALYZE were executed in this run
    total_rows,     \* counter total_rows
    total_variants, \* counter total_variants
    flush_result,   \* what the last step did with the store: "none", "committed", "rolled_back"
    rolled_back,    \* number of leading records of batch that went through a rolled-back flush
    sqlite_errors,  \* number of "SQLite error" lines printed so far
    rows_at_start,  \* number of rows the table held when this run started
    run_errors      \* number of "SQLite error" lines printed by this run

vars == <<input, batch_size, run, pc, sample_ids, line_no, row, i, parts, dp, gq,
          batch, store, schema, tuned, total_rows, total_variants, flush_result,
          rolled_back, sqlite_errors, rows_at_start,
          run_errors>>

----------------------------------------------------------------------------
(* Bounds *)

MaxRows == 2
MaxBatch == 2

----------------------------------------------------------------------------
(* Text helpers *)

DecimalChars == {"0", "1", "2", "3", "4", "5", "6", "7", "8", "9"}

SuperscriptTwo == "^2"

\* characters c with c.isdigit() True
DigitChars == DecimalChars \cup {SuperscriptTwo}

DigitVal(c) ==
    CASE c = "0" -> 0 [] c = "1" -> 1 [] c = "2" -> 2 [] c = "3" -> 3 [] c = "4" -> 4
      [] c = "5" -> 5 [] c = "6" -> 6 [] c = "7" -> 7 [] c = "8" -> 8 [] c = "9" -> 9

\* s.isdigit(): non-empty and every character is a digit character
StrIsDigit(s) == s # <<>> /\ \A k \in 1..Len(s) : s[k] \in DigitChars

RECURSIVE DecimalValue(_)
DecimalValue(s) ==
    IF s = <<>> THEN 0
    ELSE 10 * DecimalValue(SubSeq(s, 1, Len(s) - 1)) + DigitVal(s[Len(s)])

\* int(s) for a string that passed isdigit(): raises ValueError unless every
\* character is a decimal digit
PyInt(s) ==
    IF \A k \in 1..Len(s) : s[k] \in DecimalChars
    THEN [raised |-> FALSE, val |-> DecimalValue(s)]
    ELSE [raised |-> TRUE, val |-> 0]

RECURSIVE SplitOn(_, _)
\* s.split(sep): always at least one part
SplitOn(s, sep) ==
    IF \A k \in 1..Len(s) : s[k] # sep THEN <<s>>
    ELSE LET p == CHOOSE k \in 1..Len(s) : s[k] = sep /\ \A q \in 1..(k - 1) : s[q] # sep
         IN  <<SubSeq(s, 1, p - 1)>> \o SplitOn(SubSeq(s, p + 1, Len(s)), sep)

\* a reader with another delimiter
CsvRowSemicolon(line) == IF line = <<>> THEN <<>> ELSE SplitOn(line, ";")

\* csv.reader on one line without quote characters: a blank line is the empty row
CsvRow(line) == IF line = <<>> THEN <<>> ELSE SplitOn(line, ",")

RECURSIVE Join(_, _)
Join(fields, sep) ==
    IF fields = <<>> THEN <<>>
    ELSE IF Len(fields) = 1 THEN fields[1]
    ELSE fields[1] \o <<sep>> \o Join(Tail(fields), sep)

----------------------------------------------------------------------------
(* Input pool: the files the loader is run on *)

Chars(fields) == Join(fields, ",")

S1 == <<"S", "1">>

S2 == <<"S", "2">>

FixedLabels ==
    << <<"C", "H", "R", "O", "M">>, <<"P", "O", "S">>, <<"I", "D">>,
       <<"R", "E", "F">>, <<"A", "L", "T">> >>

\* two sample columns; the same sample id in two columns
HeaderPool == { Chars(FixedLabels \o <<S1, S2>>), Chars(FixedLabels \o <<S1, S1>>) }

GT01 == <<"0", "/", "1">>

GT11 == <<"1", "/", "1">>

\* a per-sample cell gt:ad:dp:gq:pl
Cell(gt, ad, dpq) == Join(<<gt, ad>> \o dpq \o << <<"0">> >>, ":")

AllZero == <<"0", ":", "0", ":", "0", ":", "0", ":", "0">>

AllMissing == <<".", ":", ".", ":", ".", ":", ".", ":", ".">>

Fixed(pos, id) == << <<"1">>, pos, id, <<"A">>, <<"G">> >>

P100 == <<"1", "0", "0">>

P200 == <<"2", "0", "0">>

D30 == <<"3", "0">>

Dot == <<".">>

\* the data line 1,100,rs1,A,G,0/1:10,5:30:90:10,0,30,0:0:0:0:0 with the
\* commas of AD and PL inside the S1 cell, unquoted
E2ELine ==
    Chars(<< <<"1">>, P100, <<"r", "s", "1">>, <<"A">>, <<"G">>,
             Join(<<GT01, <<"1", "0", ",", "5">>, D30, <<"9", "0">>,
                    <<"1", "0", ",", "0", ",", "3", "0">> >>, ":"),
             AllZero >>)

\* data lines: well-formed cells, a repeated key with other contents, the two
\* no-data markers, an empty cell, cells cut by commas, positions that are not
\* decimal, digit characters int() rejects, short rows and a blank line
LinePool ==
    { Chars(Fixed(P100, <<"a">>) \o << Cell(GT01, <<"5">>, <<D30, <<"9">> >>), AllZero >>),
      Chars(Fixed(P100, <<"b">>) \o << Cell(GT11, <<"5">>, <<D30, Dot>>),
                                       Cell(GT01, <<"5">>, <<Dot, <<"7">> >>) >>),
      Chars(Fixed(<<"x">>, <<"a">>) \o << Cell(GT01, <<"5">>, <<Dot, Dot>>), AllMissing >>),
      Chars(Fixed(<<SuperscriptTwo>>, <<"a">>) \o
                << Cell(GT01, <<"5">>, <<D30, <<SuperscriptTwo>> >>), <<>> >>),
      Chars(Fixed(P200, <<"c">>) \o << Cell(GT01, <<"5">>, <<<<SuperscriptTwo>>, <<"9">> >>) >>),
      E2ELine,
      <<"1", ",", "3">>,
      <<>> }

RECURSIVE SeqsUpTo(_, _)
SeqsUpTo(S, n) ==
    IF n = 0 THEN { <<>> }
    ELSE LET shorter == SeqsUpTo(S, n - 1)
         IN  shorter \cup { Append(q, x) : q \in { t \in shorter : Len(t) = n - 1 }, x \in S }

\* the file of the end-to-end scenario: header CHROM,POS,ID,REF,ALT,S1,S2 and E2ELine
E2EInput == << Chars(FixedLabels \o <<S1, S2>>), E2ELine >>

\* an empty file, or a header line followed by up to MaxRows data lines
InputPool == { <<>> } \cup { <<h>> \o rows : h \in HeaderPool, rows \in SeqsUpTo(LinePool, MaxRows) }

----------------------------------------------------------------------------
(* The store: table variants with PRIMARY KEY (file_id, CHROM, POS) *)

Key(r) == <<r.file_id, r.CHROM, r.POS>>

\* a plain insert into a table that enforces no key
InsertWithoutKey(table, r) == Append(table, r)

\* INSERT OR REPLACE: the row holding the key is deleted and the new row added
InsertOrReplace(table, r) ==
    Append(SelectSeq(table, LAMBDA t : Key(t) # Key(r)), r)

\* INSERT OR IGNORE of one row: a row whose key is already present is skipped
InsertOrIgnore(table, r) ==
    IF \E j \in 1..Len(table) : Key(table[j]) = Key(r) THEN table ELSE Append(table, r)

RECURSIVE ExecuteMany(_, _, _)
\* cursor.executemany over the first n records of recs, in order, inside the
\* open transaction
ExecuteMany(table, recs, n) ==
    IF n = 0 THEN table
    ELSE InsertOrIgnore(ExecuteMany(table, recs, n - 1), recs[n])

\* a rollback that leaves the rows inserted before the error in the table
RollbackKeepsInserted(committed, working) == working

\* conn.rollback(): the table as it was at the last commit
Rollback(committed, working) == committed

\* One flush of the buffer b, try/except of lines 223-232 and 255-263:
\* executemany raises sqlite3.Error after n rows (n < Len(b)), or inserts all
\* and commit either succeeds or raises.  Only the in-loop flush clears the
\* buffer, and only after a successful commit.
Flush(table, b, n, commit_ok) ==
    LET working == ExecuteMany(table, b, n)
    IN  IF n = Len(b) /\ commit_ok
        THEN [store |-> working, batch |-> <<>>, result |-> "committed", rolled_back |-> 0]
        ELSE [store |-> Rollback(table, working), batch |-> b, result |-> "rolled_back",
              rolled_back |-> Len(b)]

----------------------------------------------------------------------------
(* Per-sample parsing, lines 166-217 *)

None == <<>>

Some(n) == <<n>>

\* row[:5]
BasicData(r) == SubSeq(r, 1, IF Len(r) < 5 THEN Len(r) ELSE 5)

\* a bounds check that also drops the last cell of the row
OutOfRowEarly(r, n) == n + 6 >= Len(r)

\* line 170: the sample's offset is past the end of the row
OutOfRow(r, n) == n + 5 >= Len(r)

\* row[n + 5] with Python's 0-based index
CellValue(r, n) == r[n + 6]

\* the check of line 176 without the all-zero marker
NoDataButAllZero(cell_value) == cell_value = <<>> \/ cell_value = AllMissing

\* line 176: empty or a no-data marker
NoData(cell_value) == cell_value = <<>> \/ cell_value = AllZero \/ cell_value = AllMissing

\* a conversion that nulls both fields as soon as one of them is not an integer
ConvertQualityCoupled(dp_str, gq_str) ==
    IF StrIsDigit(dp_str) /\ StrIsDigit(gq_str)
       /\ ~PyInt(dp_str).raised /\ ~PyInt(gq_str).raised
    THEN <<Some(PyInt(dp_str).val), Some(PyInt(gq_str).val)>>
    ELSE <<None, None>>

\* lines 191-196: the try block converts dp, then gq; a ValueError in either
\* conversion sets both to None
ConvertQuality(dp_str, gq_str) ==
    LET dp_int == IF StrIsDigit(dp_str) THEN PyInt(dp_str) ELSE [raised |-> FALSE, val |-> 0]
        gq_int == IF StrIsDigit(gq_str) THEN PyInt(gq_str) ELSE [raised |-> FALSE, val |-> 0]
    IN  IF dp_int.raised THEN <<None, None>>
        ELSE IF gq_int.raised THEN <<None, None>>
        ELSE << IF StrIsDigit(dp_str) THEN Some(dp_int.val) ELSE None,
                IF StrIsDigit(gq_str) THEN Some(gq_int.val) ELSE None >>

\* line 200: int(basic_data[1]) raises inside the try block of lines 199-217
PosRaises(basic_data) == StrIsDigit(basic_data[2]) /\ PyInt(basic_data[2]).raised

\* line 200: pos_value
PosValue(basic_data) == IF StrIsDigit(basic_data[2]) THEN PyInt(basic_data[2]).val ELSE 0

\* a tuple whose last column takes the fourth sub-field instead of the fifth
RecordShifted(sample_id, basic_data, ps, dp_val, gq_val) ==
    [file_id |-> sample_id, CHROM |-> basic_data[1], POS |-> PosValue(basic_data),
     ID |-> basic_data[3], REF |-> basic_data[4], ALT |-> basic_data[5],
     GT |-> ps[1], AD |-> ps[2], DP |-> dp_val, GQ |-> gq_val, PL |-> ps[4]]

\* lines 201-213: the tuple appended to batch
Record(sample_id, basic_data, ps, dp_val, gq_val) ==
    [file_id |-> sample_id, CHROM |-> basic_data[1], POS |-> PosValue(basic_data),
     ID |-> basic_data[3], REF |-> basic_data[4], ALT |-> basic_data[5],
     GT |-> ps[1], AD |-> ps[2], DP |-> dp_val, GQ |-> gq_val, PL |-> ps[5]]

----------------------------------------------------------------------------
(* The run of transform_and_load_data *)

Init ==
    /\ input \in InputPool
    /\ batch_size \in 1..MaxBatch
    /\ run = 1
    /\ pc = "start"
    /\ sample_ids = <<>>
    /\ line_no = 0
    /\ row = <<>>
    /\ i = -1
    /\ parts = <<>>
    /\ dp = None
    /\ gq = None
    /\ batch = <<>>
    /\ store = <<>>
    /\ schema = FALSE
    /\ tuned = FALSE
    /\ total_rows = 0
    /\ total_variants = 0
    /\ flush_result = "none"
    /\ rolled_back = 0
    /\ sqlite_errors = 0
    /\ rows_at_start = 0
    /\ run_errors = 0

\* a schema step that drops and recreates the table
CreateDatabaseAfresh ==
    /\ pc = "start"
    /\ schema' = TRUE
    /\ store' = <<>>
    /\ pc' = "header"
    /\ flush_result' = "none"
    /\ UNCHANGED <<run_errors, rows_at_start, input, batch_size, run, sample_ids, line_no, row, i, parts, dp,
                   gq, batch, tuned, total_rows, total_variants, rolled_back, sqlite_errors>>

\* lines 146-147: CREATE TABLE IF NOT EXISTS and the two indexes; existing rows stay
CreateDatabase ==
    /\ pc = "start"
    /\ schema' = TRUE
    /\ pc' = "header"
    /\ flush_result' = "none"
    /\ UNCHANGED <<run_errors, rows_at_start, input, batch_size, run, sample_ids, line_no, row, i, parts, dp, gq, batch,
                   store, tuned, total_rows, total_variants, rolled_back, sqlite_errors>>

\* lines 150-163: header = next(reader), sample_ids = header[5:], counters and batch reset
ReadHeader ==
    /\ pc = "header"
    /\ input # <<>>
    /\ LET header == CsvRow(input[1])
       IN  sample_ids' = SubSeq(header, 6, Len(header))
    /\ line_no' = 1
    /\ total_rows' = 0
    /\ total_variants' = 0
    /\ batch' = <<>>
    /\ pc' = "rows"
    /\ flush_result' = "none"
    /\ UNCHANGED <<run_errors, rows_at_start, input, batch_size, run, row, i, parts, dp, gq, store, schema, tuned,
                   rolled_back, sqlite_errors>>

\* line 152 on a file without any line: next(reader) raises StopIteration, which
\* nothing catches
HeaderStopIteration ==
    /\ pc = "header"
    /\ input = <<>>
    /\ pc' = "crashed"
    /\ flush_result' = "none"
    /\ UNCHANGED <<run_errors, rows_at_start, input, batch_size, run, sample_ids, line_no, row, i, parts, dp, gq, batch,
                   store, schema, tuned, total_rows, total_variants, rolled_back, sqlite_errors>>

\* lines 165-166: the for loop takes the next row
NextRow ==
    /\ pc = "rows"
    /\ line_no < Len(input)
    /\ row' = CsvRow(input[line_no + 1])
    /\ line_no' = line_no + 1
    /\ i' = -1
    /\ pc' = "samples"
    /\ flush_result' = "none"
    /\ UNCHANGED <<run_errors, rows_at_start, input, batch_size, run, sample_ids, parts, dp, gq, batch, store, schema,
                   tuned, total_rows, total_variants, rolled_back, sqlite_errors>>

\* the sample loop of line 169 has another sample to process
InSampleLoop == pc = "samples" /\ i + 1 < Len(sample_ids)

\* the cell of the next sample passes the checks of lines 170-185
CellAccepted ==
    /\ ~OutOfRow(row, i + 1)
    /\ ~NoData(CellValue(row, i + 1))
    /\ Len(SplitOn(CellValue(row, i + 1), ":")) = 5

\* lines 170-177: offset past the row, or an empty / no-data cell: continue
SkipSample ==
    /\ InSampleLoop
    /\ IF OutOfRow(row, i + 1) THEN TRUE ELSE NoData(CellValue(row, i + 1))
    /\ i' = i + 1
    /\ flush_result' = "none"
    /\ UNCHANGED <<run_errors, rows_at_start, input, batch_size, run, pc, sample_ids, line_no, row, parts, dp, gq, batch,
                   store, schema, tuned, total_rows, total_variants, rolled_back, sqlite_errors>>

\* lines 180-185: the cell does not split into 5 parts: continue
SkipMalformed ==
    /\ InSampleLoop
    /\ ~OutOfRow(row, i + 1)
    /\ ~NoData(CellValue(row, i + 1))
    /\ parts' = SplitOn(CellValue(row, i + 1), ":")
    /\ Len(parts') # 5
    /\ i' = i + 1
    /\ flush_result' = "none"
    /\ UNCHANGED <<run_errors, rows_at_start, input, batch_size, run, pc, sample_ids, line_no, row, dp, gq, batch,
                   store, schema, tuned, total_rows, total_variants, rolled_back, sqlite_errors>>

\* lines 199-217: building the tuple raises (int of the position), the except
\* branch prints and continues
SkipRecordError ==
    /\ InSampleLoop
    /\ CellAccepted
    /\ PosRaises(BasicData(row))
    /\ parts' = SplitOn(CellValue(row, i + 1), ":")
    /\ dp' = ConvertQuality(parts'[3], parts'[4])[1]
    /\ gq' = ConvertQuality(parts'[3], parts'[4])[2]
    /\ i' = i + 1
    /\ flush_result' = "none"
    /\ UNCHANGED <<run_errors, rows_at_start, input, batch_size, run, pc, sample_ids, line_no, row, batch,
                   store, schema, tuned, total_rows, total_variants, rolled_back, sqlite_errors>>

\* an append below batch_size that leaves the counter as it is
AppendRecordUncounted ==
    /\ InSampleLoop
    /\ CellAccepted
    /\ ~PosRaises(BasicData(row))
    /\ Len(batch) + 1 < batch_size
    /\ parts' = SplitOn(CellValue(row, i + 1), ":")
    /\ dp' = ConvertQuality(parts'[3], parts'[4])[1]
    /\ gq' = ConvertQuality(parts'[3], parts'[4])[2]
    /\ batch' = Append(batch, Record(sample_ids[i + 2], BasicData(row), parts', dp', gq'))
    /\ i' = i + 1
    /\ flush_result' = "none"
    /\ UNCHANGED <<run_errors, rows_at_start, input, batch_size, run, pc, sample_ids, line_no, row,
                   store, schema, tuned, total_rows, total_variants, rolled_back,
                   sqlite_errors>>

\* lines 187-222: a record is appended and the buffer stays below batch_size
AppendRecord ==
    /\ InSampleLoop
    /\ CellAccepted
    /\ ~PosRaises(BasicData(row))
    /\ Len(batch) + 1 < batch_size
    /\ parts' = SplitOn(CellValue(row, i + 1), ":")
    /\ dp' = ConvertQuality(parts'[3], parts'[4])[1]
    /\ gq' = ConvertQuality(parts'[3], parts'[4])[2]
    /\ batch' = Append(batch, Record(sample_ids[i + 2], BasicData(row), parts', dp', gq'))
    /\ total_variants' = total_variants + 1
    /\ i' = i + 1
    /\ flush_result' = "none"
    /\ UNCHANGED <<run_errors, rows_at_start, input, batch_size, run, pc, sample_ids, line_no, row,
                   store, schema, tuned, total_rows, rolled_back, sqlite_errors>>

\* lines 187-232: a record is appended, len(batch) >= batch_size, the buffer is flushed
AppendAndFlush ==
    /\ InSampleLoop
    /\ CellAccepted
    /\ ~PosRaises(BasicData(row))
    /\ Len(batch) + 1 >= batch_size
    /\ parts' = SplitOn(CellValue(row, i + 1), ":")
    /\ dp' = ConvertQuality(parts'[3], parts'[4])[1]
    /\ gq' = ConvertQuality(parts'[3], parts'[4])[2]
    /\ total_variants' = total_variants + 1
    /\ i' = i + 1
    /\ \E n \in 0..(Len(batch) + 1), commit_ok \in BOOLEAN :
          LET full == Append(batch, Record(sample_ids[i + 2], BasicData(row), parts', dp', gq'))
              f == Flush(store, full, n, commit_ok)
          IN  /\ store' = f.store
              /\ batch' = f.batch
              /\ flush_result' = f.result
              /\ rolled_back' = f.rolled_back
              /\ sqlite_errors' = sqlite_errors + (IF f.result = "rolled_back" THEN 1 ELSE 0)
              /\ run_errors' = run_errors + (IF f.result = "rolled_back" THEN 1 ELSE 0)
    /\ UNCHANGED <<rows_at_start, input, batch_size, run, pc, sample_ids, line_no, row, schema, tuned,
                   total_rows>>

\* an end of row that counts only rows with cells
EndRowSkipsBlank ==
    /\ pc = "samples"
    /\ i + 1 >= Len(sample_ids)
    /\ total_rows' = total_rows + (IF row = <<>> THEN 0 ELSE 1)
    /\ pc' = "rows"
    /\ flush_result' = "none"
    /\ UNCHANGED <<run_errors, rows_at_start, input, batch_size, run, sample_ids, line_no, row, i,
                   parts, dp, gq, batch, store, schema, tuned, total_variants, rolled_back,
                   sqlite_errors>>

\* line 234: the sample loop is over, total_rows += 1
EndRow ==
    /\ pc = "samples"
    /\ i + 1 >= Len(sample_ids)
    /\ total_rows' = total_rows + 1
    /\ pc' = "rows"
    /\ flush_result' = "none"
    /\ UNCHANGED <<run_errors, rows_at_start, input, batch_size, run, sample_ids, line_no, row, i, parts, dp, gq, batch,
                   store, schema, tuned, total_variants, rolled_back, sqlite_errors>>

\* an end of input that goes straight to the final statistics
EndOfInputNoDrain ==
    /\ pc = "rows"
    /\ line_no >= Len(input)
    /\ pc' = "summary"
    /\ flush_result' = "none"
    /\ UNCHANGED <<run_errors, rows_at_start, input, batch_size, run, sample_ids, line_no, row, i, parts, dp,
                   gq, batch, store, schema, tuned, total_rows, total_variants, rolled_back,
                   sqlite_errors>>

\* the reader is exhausted, the with block of line 150 ends
EndOfInput ==
    /\ pc = "rows"
    /\ line_no >= Len(input)
    /\ pc' = "drain"
    /\ flush_result' = "none"
    /\ UNCHANGED <<run_errors, rows_at_start, input, batch_size, run, sample_ids, line_no, row, i, parts, dp, gq, batch,
                   store, schema, tuned, total_rows, total_variants, rolled_back, sqlite_errors>>

\* line 254 with an empty batch: nothing to insert
NoFinalFlush ==
    /\ pc = "drain"
    /\ batch = <<>>
    /\ pc' = "summary"
    /\ flush_result' = "none"
    /\ UNCHANGED <<run_errors, rows_at_start, input, batch_size, run, sample_ids, line_no, row, i, parts, dp, gq, batch,
                   store, schema, tuned, total_rows, total_variants, rolled_back, sqlite_errors>>

\* a final step that inserts nothing
FinalFlushDropped ==
    /\ pc = "drain"
    /\ batch # <<>>
    /\ pc' = "summary"
    /\ flush_result' = "none"
    /\ UNCHANGED <<run_errors, rows_at_start, input, batch_size, run, sample_ids, line_no, row, i, parts, dp,
                   gq, batch, store, schema, tuned, total_rows, total_variants, rolled_back,
                   sqlite_errors>>

\* lines 254-263: the remaining records are inserted; batch is not reassigned
FinalFlush ==
    /\ pc = "drain"
    /\ batch # <<>>
    /\ \E n \in 0..Len(batch), commit_ok \in BOOLEAN :
          LET f == Flush(store, batch, n, commit_ok)
          IN  /\ store' = f.store
              /\ flush_result' = f.result
              /\ rolled_back' = f.rolled_back
              /\ sqlite_errors' = sqlite_errors + (IF f.result = "rolled_back" THEN 1 ELSE 0)
              /\ run_errors' = run_errors + (IF f.result = "rolled_back" THEN 1 ELSE 0)
    /\ pc' = "summary"
    /\ UNCHANGED <<rows_at_start, input, batch_size, run, sample_ids, line_no, row, i, parts, dp, gq, batch,
                   schema, tuned, total_rows, total_variants>>

\* lines 265-275: the final statistics and the database size are printed
Summary ==
    /\ pc = "summary"
    /\ pc' = "tuning"
    /\ flush_result' = "none"
    /\ UNCHANGED <<run_errors, rows_at_start, input, batch_size, run, sample_ids, line_no, row, i, parts, dp, gq, batch,
                   store, schema, tuned, total_rows, total_variants, rolled_back, sqlite_errors>>

\* the tuning step moved in front of the final statistics
TuneFirst ==
    /\ pc = "summary"
    /\ tuned' = TRUE
    /\ flush_result' = "none"
    /\ ~tuned
    /\ UNCHANGED <<run_errors, rows_at_start, input, batch_size, run, pc, sample_ids, line_no, row, i, parts,
                   dp, gq, batch, store, schema, total_rows, total_variants, rolled_back,
                   sqlite_errors>>

\* lines 277-281: PRAGMA journal_mode, synchronous, cache_size and ANALYZE
Tune ==
    /\ pc = "tuning"
    /\ tuned' = TRUE
    /\ pc' = "close"
    /\ flush_result' = "none"
    /\ UNCHANGED <<run_errors, rows_at_start, input, batch_size, run, sample_ids, line_no, row, i, parts, dp, gq, batch,
                   store, schema, total_rows, total_variants, rolled_back, sqlite_errors>>

\* lines 283-284: conn.close() and return
Close ==
    /\ pc = "close"
    /\ pc' = "done"
    /\ flush_result' = "none"
    /\ UNCHANGED <<run_errors, rows_at_start, input, batch_size, run, sample_ids, line_no, row, i, parts, dp, gq, batch,
                   store, schema, tuned, total_rows, total_variants, rolled_back, sqlite_errors>>

\* transform_and_load_data is called a second time with the same input_csv and
\* output_db: fresh locals, the database file as the first run left it
Rerun ==
    /\ pc = "done"
    /\ run < 2
    /\ run' = run + 1
    /\ pc' = "start"
    /\ sample_ids' = <<>>
    /\ line_no' = 0
    /\ row' = <<>>
    /\ i' = -1
    /\ parts' = <<>>
    /\ dp' = None
    /\ gq' = None
    /\ batch' = <<>>
    /\ tuned' = FALSE
    /\ total_rows' = 0
    /\ total_variants' = 0
    /\ flush_result' = "none"
    /\ rolled_back' = 0
    /\ rows_at_start' = Len(store)
    /\ run_errors' = 0
    /\ UNCHANGED <<input, batch_size, store, schema, sqlite_errors>>

Next ==
    \/ CreateDatabase
    \/ ReadHeader
    \/ HeaderStopIteration
    \/ NextRow
    \/ SkipSample
    \/ SkipMalformed
    \/ SkipRecordError
    \/ AppendRecord
    \/ AppendAndFlush
    \/ EndRow
    \/ EndOfInput
    \/ NoFinalFlush
    \/ FinalFlush
    \/ Summary
    \/ Tune
    \/ Close
    \/ Rerun

Spec == Init /\ [][Next]_vars

----------------------------------------------------------------------------
(* Properties *)

\* the record the last sample step appended (meaningful right after an append)
LastRecord == Record(sample_ids[i + 1], BasicData(row), parts, dp, gq)

Appended == total_variants' = total_variants + 1

HasKey(table, k) == \E j \in 1..Len(table) : Key(table[j]) = k

RowWithKey(table, k) == table[CHOOSE j \in 1..Len(table) : Key(table[j]) = k]

Colons(s) == Cardinality({k \in 1..Len(s) : s[k] = ":"})

\* a cell that is non-empty, no no-data marker and has exactly 5 colon-separated parts
WellFormedCell(c) == c # <<>> /\ c # AllZero /\ c # AllMissing /\ Colons(c) = 4

AllDecimal(s) == s # <<>> /\ \A k \in 1..Len(s) : s[k] \in DecimalChars

\* C1: idempotent re-run: when the first run completed without any SQLite
\* error, no step of the second run on the same input and store changes the
\* row count of the table.
C1_IdempotentRerun ==
    [][(run = 2 /\ sqlite_errors = 0) => Len(store') = Len(store)]_vars

C1_Witness ==
    /\ run = 2 /\ pc = "done" /\ sqlite_errors = 0
    /\ total_variants >= 2 /\ Len(store) >= 2

\* C2: no two stored rows share a key (file_id, CHROM, POS); stored rows are never
\* changed or removed; and a committed flush leaves, for every buffered key,
\* the row that was written first (the row already stored, else the first
\* buffered record with that key).
C2_UniqueKeyFirstWins ==
    /\ [](\A j, k \in 1..Len(store) : Key(store[j]) = Key(store[k]) => j = k)
    /\ [][/\ Len(store') >= Len(store)
          /\ \A j \in 1..Len(store) : store'[j] = store[j]
          /\ flush_result' = "committed" =>
                \A k \in 1..Len(batch) :
                    /\ HasKey(store', Key(batch[k]))
                    /\ RowWithKey(store', Key(batch[k])) =
                          IF HasKey(store, Key(batch[k]))
                          THEN RowWithKey(store, Key(batch[k]))
                          ELSE batch[CHOOSE m \in 1..k :
                                       /\ Key(batch[m]) = Key(batch[k])
                                       /\ \A q \in 1..(m - 1) : Key(batch[q]) # Key(batch[k])]
       ]_vars

\* a committed flush during which a record with an already stored key and other
\* contents was ignored
C2_Witness ==
    /\ run = 1 /\ pc = "samples" /\ flush_result = "committed"
    /\ Len(store) < total_variants
    /\ \E j \in 1..Len(store) : Key(store[j]) = Key(LastRecord) /\ store[j] # LastRecord

\* C3: a failed flush is caught and rolled back, the run goes on, and the
\* records of the rolled-back batch are never written by a later flush.
C3_RolledBackBatchLost ==
    [][/\ flush_result' = "rolled_back" => (store' = store /\ pc' # "crashed")
       /\ flush_result' = "committed" => rolled_back = 0]_vars

\* C4: a flush is all-or-none: a step either leaves the table as it was, or it
\* is a committed flush and every flushed record's key is in the table; a
\* rolled-back flush leaves the table unchanged.
C4_FlushAtomic ==
    [][\/ store' = store
       \/ /\ flush_result' = "committed"
          /\ \A k \in 1..Len(batch) : HasKey(store', Key(batch[k]))
          /\ Appended => HasKey(store', Key(LastRecord'))]_vars

\* a rolled-back flush of two or more records, none of which is in the table
C4_Witness ==
    /\ flush_result = "rolled_back"
    /\ Len(batch) >= 2
    /\ \A k \in 1..Len(batch) : ~HasKey(store, Key(batch[k]))

\* C5: the add that brings an empty buffer to batch_size records triggers one
\* flush and leaves the buffer empty; an add below batch_size triggers none.
C5_FlushBoundary ==
    [][/\ (Appended /\ Len(batch) + 1 = batch_size) =>
              (flush_result' # "none" /\ batch' = <<>>)
       /\ (Appended /\ Len(batch) + 1 < batch_size) =>
              (flush_result' = "none" /\ Len(batch') = Len(batch) + 1)]_vars

\* C6: the buffer never holds more than batch_size records.
C6_BoundedBuffer == Len(batch) <= batch_size

\* C7: once input and store are open, the run never aborts, whatever the input.
C7_Completion == pc # "crashed"

\* C8: total_variants never exceeds rows * samples, and at the end of a run it
\* equals R * S only if every sample cell of every data row is present and
\* well-formed.
C8_CountBound ==
    LET S == Len(sample_ids)
        R == Len(input) - 1
    IN  /\ total_variants <= total_rows * S + (IF pc = "samples" THEN i + 1 ELSE 0)
        /\ (pc \in {"rows", "samples", "drain", "summary", "tuning", "close", "done"}) =>
              /\ total_rows <= R
              /\ total_variants <= R * S
        /\ (pc = "done" /\ total_variants = R * S) =>
              \A l \in 2..Len(input) : \A n \in 0..(S - 1) :
                  /\ ~OutOfRow(CsvRow(input[l]), n)
                  /\ WellFormedCell(CellValue(CsvRow(input[l]), n))

\* a finished run over at least one data row in which every cell gave a record
C8_Witness ==
    /\ pc = "done" /\ Len(input) >= 2 /\ Len(sample_ids) = 2
    /\ total_variants = (Len(input) - 1) * Len(sample_ids)

\* C9: a cell inside the row gives an observation if and only if it is well-formed.
C9_ParserAbsentRule ==
    [][(InSampleLoop /\ ~OutOfRow(row, i + 1)) =>
          (Appended <=> WellFormedCell(CellValue(row, i + 1)))]_vars

\* C10 as stated: DP and GQ are integers only if both sub-fields are decimal, and
\* both null otherwise.
C10_CoupledPair ==
    Len(parts) = 5 =>
        IF AllDecimal(parts[3]) /\ AllDecimal(parts[4])
        THEN dp = Some(DecimalValue(parts[3])) /\ gq = Some(DecimalValue(parts[4]))
        ELSE dp = None /\ gq = None

\* C10 amended: DP and GQ are converted independently, each an integer exactly
\* when its own sub-field is all decimal digits; both are null together only
\* when one sub-field passes isdigit() and is rejected by int().
C10_IndependentPair ==
    Len(parts) = 5 =>
        LET Rejected(x) == StrIsDigit(x) /\ ~AllDecimal(x)
        IN  IF Rejected(parts[3]) \/ Rejected(parts[4])
            THEN dp = None /\ gq = None
            ELSE /\ dp = IF AllDecimal(parts[3]) THEN Some(DecimalValue(parts[3])) ELSE None
                 /\ gq = IF AllDecimal(parts[4]) THEN Some(DecimalValue(parts[4])) ELSE None

\* the cell 1/1:5:30:.:0 was parsed: DP = 30, GQ = null
C10_Witness == Len(parts) = 5 /\ parts[3] = D30 /\ parts[4] = Dot /\ dp = Some(30) /\ gq = None

\* position of the k-th colon of c
ColonAt(c, k) ==
    CHOOSE p \in 1..Len(c) : c[p] = ":" /\ Cardinality({q \in 1..p : c[q] = ":"}) = k

\* sub-field k (1..5) of a cell with four colons
SubField(c, k) ==
    SubSeq(c, IF k = 1 THEN 1 ELSE ColonAt(c, k - 1) + 1,
              IF k = 5 THEN Len(c) ELSE ColonAt(c, k) - 1)

NullOrNat(x) == x = None \/ (Len(x) = 1 /\ x[1] \in Nat)

\* the position cell passes isdigit() and is rejected by int()
PosRejected(r) == StrIsDigit(r[2]) /\ ~AllDecimal(r[2])

\* C11: DP and GQ of every buffered and stored record are null or a natural
\* number; the record appended for a cell carries sub-fields 1, 2 and 5 of the
\* cell verbatim, and null DP and GQ when sub-fields 3 and 4 hold no digit.
C11_FieldTyping ==
    /\ [](/\ \A k \in 1..Len(batch) : NullOrNat(batch[k].DP) /\ NullOrNat(batch[k].GQ)
          /\ \A k \in 1..Len(store) : NullOrNat(store[k].DP) /\ NullOrNat(store[k].GQ))
    /\ [][(Appended /\ batch' # <<>>) =>
             LET r == batch'[Len(batch')]
                 c == CellValue(row, i + 1)
             IN  /\ r.GT = SubField(c, 1)
                 /\ r.AD = SubField(c, 2)
                 /\ r.PL = SubField(c, 5)
                 /\ (~StrIsDigit(SubField(c, 3)) /\ ~StrIsDigit(SubField(c, 4))) =>
                        (r.DP = None /\ r.GQ = None)]_vars

\* the cell 0/1:5:.:.:0 gave a buffered record with null DP and GQ
C11_Witness ==
    /\ batch # <<>>
    /\ parts = <<GT01, <<"5">>, Dot, Dot, <<"0">> >>
    /\ batch[Len(batch)].GT = GT01 /\ batch[Len(batch)].AD = <<"5">>
    /\ batch[Len(batch)].PL = <<"0">>
    /\ batch[Len(batch)].DP = None /\ batch[Len(batch)].GQ = None

\* C12: in a row with at least 5 cells, a sample whose offset 5+i is past the
\* end of the row changes nothing and raises nothing; a sample whose offset
\* exists gives a record exactly when its cell is well-formed and the position
\* is not rejected by int(), as in a full-length row.
C12_ShortRow ==
    [][(InSampleLoop /\ Len(row) >= 5) =>
          IF Len(row) < i + 7
          THEN /\ ~Appended /\ pc' = "samples" /\ i' = i + 1
               /\ batch' = batch /\ store' = store /\ sqlite_errors' = sqlite_errors
          ELSE /\ pc' = "samples" /\ i' = i + 1
               /\ Appended <=> (WellFormedCell(row[i + 7]) /\ ~PosRejected(row))]_vars

\* a 6-cell row under a two-sample header: the first sample gave a record, the
\* second was skipped
C12_Witness ==
    /\ pc = "samples" /\ Len(sample_ids) = 2 /\ Len(row) = 6 /\ i = 1
    /\ total_variants >= 1 /\ batch # <<>> /\ batch[Len(batch)].ID = <<"c">>

\* C13 as stated: the end-to-end input gives exactly one observation, for S1,
\* with read_depth 30 and genotype_quality 90, and none for S2.
C13_EndToEndOneObservation ==
    (input = E2EInput /\ pc = "done") =>
        /\ total_variants = 1
        /\ Len(store) = 1
        /\ store[1].file_id = S1 /\ store[1].DP = Some(30) /\ store[1].GQ = Some(90)

\* C13 amended: the reader cuts the data line at every comma into 10 cells, the
\* cells of S1 and S2 are 0/1:10 and 5:30:90:10, and no observation is produced
\* or stored.
C13_EndToEndNoObservation ==
    input = E2EInput =>
        /\ pc = "samples" =>
              /\ Len(row) = 10
              /\ row[6] = <<"0", "/", "1", ":", "1", "0">>
              /\ row[7] = <<"5", ":", "3", "0", ":", "9", "0", ":", "1", "0">>
        /\ total_variants = 0 /\ batch = <<>> /\ store = <<>>

\* the end-to-end input was read to the end
C13_Witness ==
    input = E2EInput /\ pc = "done" /\ total_rows = 1 /\ Len(row) = 10 /\ total_variants = 0

\* C14: POS of every buffered and stored record is a natural number, and a
\* well-formed cell in a row whose position cell is not all decimal digits
\* gives a record with POS = 0.
C14_PositionDefault ==
    /\ [](/\ \A k \in 1..Len(batch) : batch[k].POS \in Nat
          /\ \A k \in 1..Len(store) : store[k].POS \in Nat)
    /\ [][(InSampleLoop /\ Len(row) >= i + 7 /\ WellFormedCell(row[i + 7])
           /\ ~AllDecimal(row[2])) =>
             /\ Appended
             /\ batch' # <<>> => batch'[Len(batch')].POS = 0]_vars

\* C15: no step removes or changes a committed row.
C15_AppendOnly ==
    [][/\ Len(store') >= Len(store)
       /\ \A j \in 1..Len(store) : store'[j] = store[j]]_vars

\* the schema was provisioned again on a populated table
C15_Witness == run = 2 /\ pc = "header" /\ schema /\ Len(store) >= 2

\* the phase of the loader: 0 INIT, 1 READING_HEADER, 2 STREAMING_ROWS,
\* 3 DRAINING, 4 FINALIZED; -1 for an aborted run
Phase(p) ==
    CASE p = "crashed" -> -1
      [] p = "start" -> 0
      [] p = "header" -> 1
      [] p \in {"rows", "samples"} -> 2
      [] p = "drain" -> 3
      [] p \in {"summary", "tuning", "close", "done"} -> 4

\* C16: within a run the phase stays or advances by one; the table changes only
\* with the schema in place, during STREAMING_ROWS or DRAINING and before the
\* tuning; the tuning is applied only in FINALIZED.
C16_PhaseOrder ==
    [][/\ (run' = run /\ pc' # "crashed") =>
              (Phase(pc') = Phase(pc) \/ Phase(pc') = Phase(pc) + 1)
       /\ pc' = "crashed" => pc = "header"
       /\ run' # run => (pc = "done" /\ pc' = "start")
       /\ store' # store => (schema /\ ~tuned /\ ~tuned' /\ pc \in {"samples", "drain"})
       /\ (tuned' /\ ~tuned) => (Phase(pc) = 4 /\ Phase(pc') = 4)]_vars

\* a finished first run that stored rows and was tuned
C16_Witness == run = 1 /\ pc = "done" /\ schema /\ tuned /\ Len(store) >= 2

\* C17 as stated: the summary is emitted only after the tuning and the close.
C17_SummaryLast == (pc \in {"tuning", "close", "done"}) => (tuned /\ pc = "done")

\* C17 amended: the summary is emitted first, then the tuning is applied, then
\* the store is closed.
C17_SummaryFirst ==
    /\ tuned => pc \in {"close", "done"}
    /\ (pc \in {"close", "done"}) => tuned
    /\ (pc \in {"start", "header", "rows", "samples", "drain", "summary", "tuning"}) => ~tuned

\* the summary of a run over data rows has been printed, the tuning is still to come
C17_Witness == pc = "tuning" /\ ~tuned /\ total_rows >= 1 /\ Len(store) >= 1

\* the sample cell n of data line l gives a record
GivesRecord(l, n) ==
    LET r == CsvRow(input[l])
    IN  Len(r) >= n + 6 /\ WellFormedCell(r[n + 6]) /\ ~PosRejected(r)

\* C18: at FINALIZED of a run, when no flush has failed, every cell that gives
\* a record has its key (sample, CHROM, POS) in the table, and so has every
\* buffered record.
C18_FinalDrain ==
    (Phase(pc) = 4 /\ run_errors = 0) =>
        /\ \A k \in 1..Len(batch) : HasKey(store, Key(batch[k]))
        /\ \A l \in 2..Len(input) : \A n \in 0..(Len(sample_ids) - 1) :
              GivesRecord(l, n) =>
                  LET r == CsvRow(input[l])
                  IN  HasKey(store, <<sample_ids[n + 1], r[1],
                                      IF AllDecimal(r[2]) THEN DecimalValue(r[2]) ELSE 0>>)

\* a partial trailing batch was written by the final flush
C18_Witness ==
    /\ pc = "summary" /\ run_errors = 0 /\ flush_result = "committed"
    /\ batch_size = 2 /\ Len(batch) = 1 /\ HasKey(store, Key(batch[1]))

\* the key of the record that sample cell n of the decoded row r gives
KeyOfCell(r, n) ==
    <<sample_ids[n + 1], r[1], IF AllDecimal(r[2]) THEN DecimalValue(r[2]) ELSE 0>>

\* the keys, with repetitions, of the records the decoded row r gives
RowKeys(r) ==
    LET giving == {n \in 0..(Len(sample_ids) - 1) :
                     Len(r) >= n + 6 /\ WellFormedCell(r[n + 6]) /\ ~PosRejected(r)}
    IN  [count |-> Cardinality(giving), keys |-> {KeyOfCell(r, n) : n \in giving}]

RECURSIVE ProducedFrom(_)
\* number of records and set of keys the data lines l..Len(input) give
ProducedFrom(l) ==
    IF l > Len(input) THEN [count |-> 0, keys |-> {}]
    ELSE LET here == RowKeys(CsvRow(input[l]))
             rest == ProducedFrom(l + 1)
         IN  [count |-> here.count + rest.count, keys |-> here.keys \cup rest.keys]

\* C19: total_variants grows by exactly one with every record appended to the
\* buffer, whatever the flush does; the rows committed by this run never exceed
\* it; when the summary is printed it is the number of cells that gave a
\* record, and it is strictly larger than the committed rows when two of them
\* share a key or the last batch was rolled back.
C19_ProducedCounter ==
    /\ [](/\ Len(store) - rows_at_start <= total_variants
          /\ pc = "summary" =>
                LET produced == ProducedFrom(2)
                IN  /\ total_variants = produced.count
                    /\ Cardinality(produced.keys) < produced.count
                          => Len(store) - rows_at_start < total_variants
                    /\ (batch # <<>> /\ flush_result = "rolled_back")
                          => Len(store) - rows_at_start < total_variants)
    /\ [][(pc = "samples" /\ pc' = "samples") =>
             /\ total_variants' \in {total_variants, total_variants + 1}
             /\ Appended =>
                   \/ flush_result' = "committed" /\ batch' = <<>>
                   \/ Len(batch') = Len(batch) + 1 /\ SubSeq(batch', 1, Len(batch)) = batch
             /\ ~Appended => (batch' = batch /\ store' = store)]_vars

\* the summary was printed with more produced than committed records
C19_Witness ==
    /\ pc = "tuning" /\ run = 1 /\ run_errors = 0
    /\ total_variants = 2 /\ Len(store) - rows_at_start = 1

\* C20: a data row with fewer than 6 cells gives no record and no error, and
\* every data row adds exactly one to total_rows.
C20_DegenerateRows ==
    /\ [](/\ pc = "rows" => total_rows = line_no - 1
          /\ pc = "samples" => total_rows = line_no - 2
          /\ Phase(pc) >= 3 => total_rows = Len(input) - 1)
    /\ [][(pc = "samples" /\ Len(row) < 6) =>
             /\ ~Appended /\ pc' \in {"samples", "rows"}
             /\ batch' = batch /\ store' = store /\ run_errors' = run_errors
             /\ pc' = "rows" => total_rows' = total_rows + 1]_vars

\* a two-cell row and a blank row were read, both counted, no record produced
C20_Witness ==
    /\ pc = "rows" /\ line_no = 3 /\ row = <<>> /\ Len(CsvRow(input[2])) = 2
    /\ total_rows = 2 /\ total_variants = 0

====
